---- MODULE Spec2Model ----
(***************************************************************************)
(* Model of scripts/fetch-transcript.py: the command-line entry point      *)
(* main() and the function fetch_transcript(video_id, language_codes).     *)
(*                                                                         *)
(* One behaviour is one process run.  The arguments the process was       *)
(* started with (args) and what the transcript service will answer for    *)
(* this video (service) are fixed when the run starts; the actions are    *)
(* the statements of fetch_transcript and main, cut at the two external   *)
(* calls (api.list and selected_transcript.fetch).                         *)
(*                                                                         *)
(* Representation:                                                         *)
(*  - a text is a sequence of one-character strings, so that joining and   *)
(*    the separator are visible: "a b" is <<"a", " ", "b">>;               *)
(*  - an optional argument is [given, codes]; given = FALSE is None;       *)
(*  - a track reference is its position in the listing (object identity), *)
(*    0 being None;                                                        *)
(*  - an exception is [type, text]; type "none" means nothing was raised;  *)
(*  - a plain-mapping caption unit is a record that may lack keys, a       *)
(*    snippet object always has start, duration and text.                  *)
(***************************************************************************)
EXTENDS Integers, Sequences, FiniteSets, TLC

VARIABLES
    args,                   \* parsed command line: video_id, languages, output
    service,                \* what api.list and .fetch answer for this video
    pc,                     \* position in main / fetch_transcript
    language_codes,         \* local of fetch_transcript (after defaulting)
    available_transcripts,  \* result of api.list
    selected_transcript,    \* position of the chosen track, 0 = None
    transcript_list,        \* result of selected_transcript.fetch()
    raised,                 \* exception travelling to the except clauses
    result,                 \* value returned by fetch_transcript
    calls,                  \* external calls made so far, in order
    stdout,                 \* what main printed to standard output
    stderr,                 \* what main printed to standard error
    exit_code               \* process exit status, -1 while running

vars == <<args, service, pc, language_codes, available_transcripts,
          selected_transcript, transcript_list, raised, result, calls,
          stdout, stderr, exit_code>>

---------------------------------------------------------------------------
(* Bounds of the explored inputs *)

MaxPrefs == 2
MaxTracks == 2
MaxUnits == 2

---------------------------------------------------------------------------
(* Small helpers *)

SeqsUpTo(S, n) == UNION {[1..k -> S] : k \in 0..n}

Min(S) == CHOOSE x \in S : \A y \in S : x <= y

None == [given |-> FALSE, codes |-> <<>>]

Some(codes) == [given |-> TRUE, codes |-> codes]

NoExc == [type |-> "none", text |-> ""]

---------------------------------------------------------------------------
(* Input domains *)

VideoIds == {"dQw4w9WgXcQ"}

PrefCodes == {"no", "en", "de"}

TrackCodes == {"no", "en", "da", "fr"}

LanguageName(code) ==
    CASE code = "no" -> "Norwegian"
      [] code = "en" -> "English"
      [] code = "da" -> "Danish"
      [] code = "fr" -> "French"
      [] OTHER -> "Other"

Track(code, generated) ==
    [language |-> LanguageName(code), language_code |-> code,
     is_generated |-> generated, is_translatable |-> TRUE]

TrackPool == {Track(c, g) : c \in TrackCodes, g \in BOOLEAN}

LanguageArgs == {None} \cup {Some(l) : l \in SeqsUpTo(PrefCodes, MaxPrefs)}

OutputModes == {"json", "text"}

ServiceErrors ==
    {[type |-> "TranscriptsDisabled", text |-> "disabled"],
     [type |-> "NoTranscriptFound", text |-> "not found"],
     [type |-> "RequestBlocked", text |-> "blocked"],
     [type |-> "TypeError", text |-> "bad payload"]}

Unit(start, duration, text) ==
    [start |-> start, duration |-> duration, text |-> text]

SnippetPool ==
    {Unit(0, 2, <<"a">>), Unit(2, 3, <<"b">>), Unit(5, 0, <<>>),
     Unit(1, 1, <<"a", " ", "b">>)}

PlainPool ==
    SnippetPool \cup {[start |-> 2, text |-> <<"b">>], [duration |-> 3]}

Snippets(items) == [shape |-> "snippets", items |-> items]

PlainList(items) == [shape |-> "list", items |-> items]

NoContent == PlainList(<<>>)

Returns(value) == [exc |-> NoExc, value |-> value]

Raises(e, empty) == [exc |-> e, value |-> empty]

ListingOutcomes ==
    {Returns(t) : t \in SeqsUpTo(TrackPool, MaxTracks)}
        \cup {Raises(e, <<>>) : e \in ServiceErrors}

ContentOutcomes ==
    {Returns(Snippets(u)) : u \in SeqsUpTo(SnippetPool, MaxUnits)}
        \cup {Returns(PlainList(u)) : u \in SeqsUpTo(PlainPool, MaxUnits)}
        \cup {Raises(e, NoContent) : e \in ServiceErrors}

FewContentOutcomes ==
    {Returns(Snippets(<<Unit(0, 2, <<"a">>), Unit(2, 3, <<"b">>)>>)),
     Returns(PlainList(<<>>))}
        \cup {Raises(e, NoContent) : e \in ServiceErrors}

FewListingOutcomes ==
    {Returns(<<>>), Returns(<<Track("fr", FALSE)>>),
     Returns(<<Track("fr", FALSE), Track("en", TRUE)>>),
     Raises([type |-> "TranscriptsDisabled", text |-> "disabled"], <<>>)}

FewLanguageArgs == {None, Some(<<"de">>)}

---------------------------------------------------------------------------
(* fetch_transcript: language defaulting and track selection *)

\* mutant of DefaultLanguageCodes: English before Norwegian
DefaultLanguageCodesEnglishFirst == <<"en", "no", "da", "sv">>

DefaultLanguageCodes == <<"no", "en", "da", "sv">>

EffectiveLanguageCodes(lc) ==
    IF ~lc.given THEN DefaultLanguageCodes ELSE lc.codes

\* inner loop of pass 1: first track, from position i on, with this code
RECURSIVE ScanForLanguage(_, _, _)
ScanForLanguage(lang, tracks, i) ==
    IF i > Len(tracks) THEN 0
    ELSE IF tracks[i].language_code = lang THEN i
    ELSE ScanForLanguage(lang, tracks, i + 1)

\* outer loop of pass 1: preferences in caller order
RECURSIVE ScanPreferences(_, _)
ScanPreferences(langs, tracks) ==
    IF langs = <<>> THEN 0
    ELSE LET m == ScanForLanguage(Head(langs), tracks, 1)
         IN  IF m # 0 THEN m ELSE ScanPreferences(Tail(langs), tracks)

\* mutant of Pass1: the two loops exchanged (tracks outside)
Pass1TracksOuter(langs, tracks) ==
    LET hit == {i \in 1..Len(tracks) :
                    \E k \in 1..Len(langs) : tracks[i].language_code = langs[k]}
    IN  IF hit = {} THEN 0 ELSE Min(hit)

\* pass 1: exact language-code match in preference order
Pass1(langs, tracks) == ScanPreferences(langs, tracks)

FallbackCodes == {"en", "no"}

\* inner loop of pass 2
RECURSIVE ScanGenerated(_, _)
ScanGenerated(tracks, i) ==
    IF i > Len(tracks) THEN 0
    ELSE IF tracks[i].is_generated
            /\ tracks[i].language_code \in FallbackCodes THEN i
    ELSE ScanGenerated(tracks, i + 1)

\* mutant of Pass2: is_generated not looked at
Pass2AnyGeneration(tracks) ==
    LET hit == {j \in 1..Len(tracks) : tracks[j].language_code \in FallbackCodes}
    IN  IF hit = {} THEN 0 ELSE Min(hit)

\* pass 2: first auto-generated track in en / no
Pass2(tracks) == ScanGenerated(tracks, 1)

\* mutant of Pass3: the last track instead of the first
Pass3Last(tracks) == Len(tracks)

\* pass 3: first available track, if the listing is non-empty
Pass3(tracks) == IF tracks # <<>> THEN 1 ELSE 0

SelectTranscript(langs, tracks) ==
    LET p1 == Pass1(langs, tracks)
        p2 == Pass2(tracks)
    IN  IF p1 # 0 THEN p1
        ELSE IF p2 # 0 THEN p2
        ELSE Pass3(tracks)

\* mutant of NoSuitableTranscript: a plain Exception is raised
NoSuitablePlainException ==
    [type |-> "Exception", text |-> "No suitable transcript found"]

NoSuitableTranscript ==
    [type |-> "NoTranscriptFound", text |-> "No suitable transcript found"]

---------------------------------------------------------------------------
(* fetch_transcript: normalisation of the fetched content *)

Get(d, key, default) == IF key \in DOMAIN d THEN d[key] ELSE default

HasSnippets(tl) == tl.shape = "snippets"

TotalDuration(tl) ==
    IF HasSnippets(tl) /\ tl.items # <<>>
    THEN tl.items[Len(tl.items)].start + tl.items[Len(tl.items)].duration
    ELSE 0

\* mutant of SegmentOfSnippet: end is the duration alone
SegmentOfSnippetNoStart(i, snippet) ==
    [id |-> i, start |-> snippet.start, end |-> snippet.duration,
     text |-> snippet.text]

SegmentOfSnippet(i, snippet) ==
    [id |-> i, start |-> snippet.start,
     end |-> snippet.start + snippet.duration, text |-> snippet.text]

SegmentOfMapping(i, segment) ==
    [id |-> i, start |-> Get(segment, "start", 0),
     end |-> Get(segment, "start", 0) + Get(segment, "duration", 0),
     text |-> Get(segment, "text", <<>>)]

\* enumerate() counts from 0, sequences here from 1
Segments(tl) ==
    IF HasSnippets(tl)
    THEN [k \in 1..Len(tl.items) |-> SegmentOfSnippet(k - 1, tl.items[k])]
    ELSE [k \in 1..Len(tl.items) |-> SegmentOfMapping(k - 1, tl.items[k])]

FullTextParts(tl) ==
    IF HasSnippets(tl)
    THEN [k \in 1..Len(tl.items) |-> tl.items[k].text]
    ELSE [k \in 1..Len(tl.items) |-> Get(tl.items[k], "text", <<>>)]

\* ' '.join(parts)
RECURSIVE Join(_)
Join(parts) ==
    IF parts = <<>> THEN <<>>
    ELSE IF Len(parts) = 1 THEN parts[1]
    ELSE parts[1] \o <<" ">> \o Join(Tail(parts))

SuccessResult(video_id, track, tl) ==
    [success |-> TRUE,
     video_id |-> video_id,
     text |-> Join(FullTextParts(tl)),
     segments |-> Segments(tl),
     language |-> track.language,
     language_code |-> track.language_code,
     duration |-> TotalDuration(tl),
     source |-> IF track.is_generated THEN "youtube-auto" ELSE "youtube-manual",
     is_generated |-> track.is_generated]

---------------------------------------------------------------------------
(* fetch_transcript: the except clauses *)

Failure(error, message) ==
    [success |-> FALSE, error |-> error, message |-> message]

\* mutant of ExceptHandler: the catch-all clause tried first
ExceptHandlerCatchAllFirst(e, langs) ==
    Failure("UNKNOWN_ERROR", <<e.text>>)

ExceptHandler(e, langs) ==
    IF e.type = "TranscriptsDisabled"
    THEN Failure("TRANSCRIPTS_DISABLED",
                 <<"Transcripts are disabled for this video">>)
    ELSE IF e.type = "NoTranscriptFound"
    THEN Failure("NO_TRANSCRIPT_FOUND",
                 <<"No transcripts found in languages: ", langs>>)
    ELSE Failure("UNKNOWN_ERROR", <<e.text>>)

\* the whole function, as one value of its arguments and the service's answers
FetchTranscript(video_id, lc, svc) ==
    LET langs == EffectiveLanguageCodes(lc)
        tracks == svc.listing.value
        sel == SelectTranscript(langs, tracks)
    IN  IF svc.listing.exc # NoExc THEN ExceptHandler(svc.listing.exc, langs)
        ELSE IF sel = 0 THEN ExceptHandler(NoSuitableTranscript, langs)
        ELSE IF svc.content.exc # NoExc THEN ExceptHandler(svc.content.exc, langs)
        ELSE SuccessResult(video_id, tracks[sel], svc.content.value)

---------------------------------------------------------------------------
(* main: printing and exit status *)

JsonDocument(r) == <<"json", r>>

Line(text) == <<"line", text>>

\* mutant of ExitCode: the final sys.exit always reports success
ExitCodeAlwaysZeroAtEnd(output, r) ==
    IF output = "text" /\ ~r.success THEN 1 ELSE 0

ExitCode(output, r) ==
    IF output = "text" /\ ~r.success THEN 1
    ELSE IF r.success THEN 0 ELSE 1

Printed(output, r) ==
    IF output = "json" THEN <<JsonDocument(r)>>
    ELSE IF r.success THEN <<Line(r.text)>>
    ELSE <<>>

PrintedToStderr(output, r) ==
    IF output = "text" /\ ~r.success
    THEN <<Line(<<"Error: ", r.message>>)>>
    ELSE <<>>

---------------------------------------------------------------------------
(* The run *)

ListCall(video_id) == [op |-> "list", video_id |-> video_id, track |-> 0]

FetchCall(video_id, track) ==
    [op |-> "fetch", video_id |-> video_id, track |-> track]

NoResult == Failure("", <<>>)

InitWith(languageArgs, listings, contents) ==
    /\ args \in [video_id : VideoIds, languages : languageArgs,
                 output : OutputModes]
    /\ service \in [listing : listings, content : contents]
    /\ pc = "main"
    /\ language_codes = <<>>
    /\ available_transcripts = <<>>
    /\ selected_transcript = 0
    /\ transcript_list = NoContent
    /\ raised = NoExc
    /\ result = NoResult
    /\ calls = <<>>
    /\ stdout = <<>>
    /\ stderr = <<>>
    /\ exit_code = -1

\* every preference list and listing, a few contents
Init == InitWith(LanguageArgs, ListingOutcomes, FewContentOutcomes)

\* every content, a few preference lists and listings
InitContent == InitWith(FewLanguageArgs, FewListingOutcomes, ContentOutcomes)

\* main calls fetch_transcript; language_codes gets its default
Enter ==
    /\ pc = "main"
    /\ language_codes' = EffectiveLanguageCodes(args.languages)
    /\ pc' = "list"
    /\ UNCHANGED <<args, service, available_transcripts, selected_transcript,
                   transcript_list, raised, result, calls, stdout, stderr,
                   exit_code>>

\* api.list(video_id) returns the tracks
ListOk ==
    /\ pc = "list"
    /\ service.listing.exc = NoExc
    /\ calls' = Append(calls, ListCall(args.video_id))
    /\ available_transcripts' = service.listing.value
    /\ pc' = "select"
    /\ UNCHANGED <<args, service, language_codes, selected_transcript,
                   transcript_list, raised, result, stdout, stderr, exit_code>>

\* api.list(video_id) raises; the except clauses build the result
ListFail ==
    /\ pc = "list"
    /\ service.listing.exc # NoExc
    /\ calls' = Append(calls, ListCall(args.video_id))
    /\ raised' = service.listing.exc
    /\ result' = ExceptHandler(service.listing.exc, language_codes)
    /\ pc' = "returned"
    /\ UNCHANGED <<args, service, language_codes, available_transcripts,
                   selected_transcript, transcript_list, stdout, stderr,
                   exit_code>>

\* the three passes found a track
SelectFound ==
    /\ pc = "select"
    /\ SelectTranscript(language_codes, available_transcripts) # 0
    /\ selected_transcript' =
           SelectTranscript(language_codes, available_transcripts)
    /\ pc' = "fetch"
    /\ UNCHANGED <<args, service, language_codes, available_transcripts,
                   transcript_list, raised, result, calls, stdout, stderr,
                   exit_code>>

\* the three passes found nothing: NoTranscriptFound is raised and caught
SelectNone ==
    /\ pc = "select"
    /\ SelectTranscript(language_codes, available_transcripts) = 0
    /\ raised' = NoSuitableTranscript
    /\ result' = ExceptHandler(NoSuitableTranscript, language_codes)
    /\ pc' = "returned"
    /\ UNCHANGED <<args, service, language_codes, available_transcripts,
                   selected_transcript, transcript_list, calls, stdout, stderr,
                   exit_code>>

\* selected_transcript.fetch() returns the content
FetchOk ==
    /\ pc = "fetch"
    /\ service.content.exc = NoExc
    /\ calls' = Append(calls, FetchCall(args.video_id, selected_transcript))
    /\ transcript_list' = service.content.value
    /\ pc' = "normalize"
    /\ UNCHANGED <<args, service, language_codes, available_transcripts,
                   selected_transcript, raised, result, stdout, stderr,
                   exit_code>>

\* mutant of FetchFail: the call is tried again (up to three times)
FetchFailRetry ==
    /\ pc = "fetch"
    /\ service.content.exc # NoExc
    /\ calls' = Append(calls, FetchCall(args.video_id, selected_transcript))
    /\ IF Len(calls) < 3
       THEN UNCHANGED <<raised, result, pc>>
       ELSE /\ raised' = service.content.exc
            /\ result' = ExceptHandler(service.content.exc, language_codes)
            /\ pc' = "returned"
    /\ UNCHANGED <<args, service, language_codes, available_transcripts,
                   selected_transcript, transcript_list, stdout, stderr,
                   exit_code>>

\* selected_transcript.fetch() raises; the except clauses build the result
FetchFail ==
    /\ pc = "fetch"
    /\ service.content.exc # NoExc
    /\ calls' = Append(calls, FetchCall(args.video_id, selected_transcript))
    /\ raised' = service.content.exc
    /\ result' = ExceptHandler(service.content.exc, language_codes)
    /\ pc' = "returned"
    /\ UNCHANGED <<args, service, language_codes, available_transcripts,
                   selected_transcript, transcript_list, stdout, stderr,
                   exit_code>>

\* duration, segments, text and the success result
Normalize ==
    /\ pc = "normalize"
    /\ result' = SuccessResult(args.video_id,
                               available_transcripts[selected_transcript],
                               transcript_list)
    /\ pc' = "returned"
    /\ UNCHANGED <<args, service, language_codes, available_transcripts,
                   selected_transcript, transcript_list, raised, calls, stdout,
                   stderr, exit_code>>

\* main prints the result and exits
Output ==
    /\ pc = "returned"
    /\ stdout' = Printed(args.output, result)
    /\ stderr' = PrintedToStderr(args.output, result)
    /\ exit_code' = ExitCode(args.output, result)
    /\ pc' = "exited"
    /\ UNCHANGED <<args, service, language_codes, available_transcripts,
                   selected_transcript, transcript_list, raised, result, calls>>

Next ==
    \/ Enter
    \/ ListOk
    \/ ListFail
    \/ SelectFound
    \/ SelectNone
    \/ FetchOk
    \/ FetchFail
    \/ Normalize
    \/ Output

Spec == Init /\ [][Next]_vars

SpecContent == InitContent /\ [][Next]_vars

---------------------------------------------------------------------------
(* Vocabulary of the properties *)

Returned == pc \in {"returned", "exited"}

Selected == selected_transcript # 0

ListingSucceeded == service.listing.exc = NoExc

\* positions of language_codes for which some listed track exists
PreferenceMatches(langs, tracks) ==
    {k \in 1..Len(langs) :
        \E i \in 1..Len(tracks) : tracks[i].language_code = langs[k]}

\* positions of the auto-generated English / Norwegian tracks
GeneratedFallbacks(tracks) ==
    {i \in 1..Len(tracks) :
        tracks[i].is_generated /\ tracks[i].language_code \in {"en", "no"}}

Permuted(tracks, p) == [i \in 1..Len(tracks) |-> tracks[p[i]]]

\* where the k-th text starts in the joined text (0-based offset)
RECURSIVE TextOffset(_, _)
TextOffset(segs, k) ==
    IF k = 1 THEN 0
    ELSE TextOffset(segs, k - 1) + Len(segs[k - 1].text) + 1

---------------------------------------------------------------------------
(* C1: pass 1.  When some listed track has a language code that occurs in  *)
(* language_codes, the selected track carries the earliest such entry of   *)
(* language_codes, it is the first track in listing order with that code,  *)
(* and listing the same tracks in any other order selects the same code.   *)
C1_PreferencePrecedence ==
    LET langs == language_codes
        tracks == available_transcripts
        M == PreferenceMatches(langs, tracks)
    IN  (Selected /\ M # {}) =>
            LET code == langs[Min(M)]
            IN  /\ tracks[selected_transcript].language_code = code
                /\ \A j \in 1..(selected_transcript - 1) :
                       tracks[j].language_code # code
                /\ \A p \in Permutations(1..Len(tracks)) :
                       LET other == Permuted(tracks, p)
                           sel == SelectTranscript(langs, other)
                       IN  sel # 0 /\ other[sel].language_code = code

\* the spec's example: tracks listed <<x, y>>, preference <<y's code, x's code>>
C1_Witness ==
    /\ pc = "exited"
    /\ Len(language_codes) = 2
    /\ Len(available_transcripts) = 2
    /\ available_transcripts[1].language_code = language_codes[2]
    /\ available_transcripts[2].language_code = language_codes[1]
    /\ language_codes[1] # language_codes[2]
    /\ selected_transcript = 2

(* C2: pass 2.  When no listed track's code occurs in language_codes and   *)
(* some track is auto-generated in en / no, the selected track is the      *)
(* first such track in listing order, whatever language_codes is and       *)
(* whatever non-matching tracks are listed before it.                      *)
C2_GeneratedFallback ==
    LET tracks == available_transcripts
        G == GeneratedFallbacks(tracks)
    IN  (pc \in {"fetch", "normalize", "returned", "exited"}
            /\ PreferenceMatches(language_codes, tracks) = {}
            /\ G # {})
        => selected_transcript = Min(G)

\* a manual track that matches nothing is listed before the generated one
C2_Witness ==
    /\ pc = "exited"
    /\ language_codes # <<>>
    /\ PreferenceMatches(language_codes, available_transcripts) = {}
    /\ Len(available_transcripts) = 2
    /\ ~available_transcripts[1].is_generated
    /\ available_transcripts[2].is_generated
    /\ available_transcripts[2].language_code = "en"
    /\ selected_transcript = 2

(* C3: pass 3.  When the listing succeeded with at least one track, no     *)
(* track's code occurs in language_codes and no track is auto-generated in *)
(* en / no, the selected track is the first one listed; so a non-empty     *)
(* listing always yields a selection and a fetch call, and the selection   *)
(* step never produces NO_TRANSCRIPT_FOUND.                                *)
C3_FirstAvailableFallback ==
    LET tracks == available_transcripts
    IN  /\ (pc \in {"fetch", "normalize", "returned", "exited"}
               /\ tracks # <<>>
               /\ PreferenceMatches(language_codes, tracks) = {}
               /\ GeneratedFallbacks(tracks) = {})
           => selected_transcript = 1
        /\ (Returned /\ tracks # <<>>) =>
               /\ Selected
               /\ Len(calls) = 2
               /\ (~result.success /\ result.error = "NO_TRANSCRIPT_FOUND")
                      => service.content.exc.type = "NoTranscriptFound"

\* two tracks that match no rule: the first one is taken and fetched
C3_Witness ==
    /\ pc = "exited"
    /\ Len(available_transcripts) = 2
    /\ PreferenceMatches(language_codes, available_transcripts) = {}
    /\ GeneratedFallbacks(available_transcripts) = {}
    /\ available_transcripts[1] # available_transcripts[2]
    /\ selected_transcript = 1
    /\ result.success

(* C4: empty listing.  When api.list succeeds with zero tracks, the result *)
(* is a failure with error NO_TRANSCRIPT_FOUND whose message carries the   *)
(* language list that was searched, for every language_codes argument, and *)
(* the content fetch is never called.                                      *)
C4_EmptySetFailure ==
    (ListingSucceeded /\ service.listing.value = <<>>) =>
        /\ pc \notin {"fetch", "normalize"}
        /\ \A i \in 1..Len(calls) : calls[i].op # "fetch"
        /\ Returned =>
               /\ result.success = FALSE
               /\ result.error = "NO_TRANSCRIPT_FOUND"
               /\ result.message =
                      <<"No transcripts found in languages: ",
                        IF args.languages.given THEN args.languages.codes
                        ELSE <<"no", "en", "da", "sv">> >>

C4_Witness ==
    /\ pc = "exited"
    /\ ListingSucceeded
    /\ service.listing.value = <<>>
    /\ args.languages.given
    /\ Len(args.languages.codes) = 2
    /\ result.error = "NO_TRANSCRIPT_FOUND"

(* C5: in every successful result, for both content shapes, duration is    *)
(* the end of the last segment, and 0 when there are no segments.          *)
C5_DurationIsLastEnd ==
    (Returned /\ result.success) =>
        result.duration =
            IF result.segments # <<>>
            THEN result.segments[Len(result.segments)].end
            ELSE 0

(* C6: fetch_transcript is total over failures.  Whichever of the listing  *)
(* call, the selection step and the content fetch raises, the function     *)
(* returns a result with success = FALSE whose error is                    *)
(* TRANSCRIPTS_DISABLED exactly for TranscriptsDisabled,                   *)
(* NO_TRANSCRIPT_FOUND exactly for NoTranscriptFound and UNKNOWN_ERROR for *)
(* every other exception; and the run never stops before main has exited.  *)
C6_FailuresBecomeResults ==
    /\ pc # "exited" => ENABLED Next
    /\ (service.listing.exc # NoExc /\ Len(calls) >= 1) =>
           Returned /\ raised = service.listing.exc
    /\ (service.content.exc # NoExc /\ Len(calls) = 2) =>
           Returned /\ raised = service.content.exc
    /\ raised # NoExc => Returned
    /\ Returned =>
           /\ result.success <=> raised = NoExc
           /\ raised # NoExc =>
                  /\ result.error \in {"TRANSCRIPTS_DISABLED",
                                       "NO_TRANSCRIPT_FOUND", "UNKNOWN_ERROR"}
                  /\ result.error = "TRANSCRIPTS_DISABLED"
                         <=> raised.type = "TranscriptsDisabled"
                  /\ result.error = "NO_TRANSCRIPT_FOUND"
                         <=> raised.type = "NoTranscriptFound"
                  /\ result.error = "UNKNOWN_ERROR"
                         <=> raised.type \notin {"TranscriptsDisabled",
                                                 "NoTranscriptFound"}

\* the content fetch reports that no transcript was found
C6_Witness ==
    /\ pc = "exited"
    /\ Len(calls) = 2
    /\ raised.type = "NoTranscriptFound"
    /\ result.error = "NO_TRANSCRIPT_FOUND"

(* C7: main.  For both output modes and every result, the exit status is 0 *)
(* exactly when result.success and 1 otherwise; text mode on failure       *)
(* writes "Error: <message>" to standard error and nothing to standard     *)
(* output; json mode writes the result document to standard output on      *)
(* success and on failure alike.                                           *)
C7_ExitCodeFollowsSuccess ==
    /\ pc # "exited" => exit_code = -1 /\ stdout = <<>> /\ stderr = <<>>
    /\ pc = "exited" =>
           /\ exit_code = IF result.success THEN 0 ELSE 1
           /\ (args.output = "text" /\ ~result.success) =>
                  /\ stderr = << <<"line", <<"Error: ", result.message>> >> >>
                  /\ stdout = <<>>
           /\ (args.output = "text" /\ result.success) =>
                  /\ stdout = << <<"line", result.text>> >>
                  /\ stderr = <<>>
           /\ args.output = "json" =>
                  /\ stdout = << <<"json", result>> >>
                  /\ stderr = <<>>

\* json mode, a failure of the unknown kind: document printed, status 1
C7_Witness ==
    /\ pc = "exited"
    /\ args.output = "json"
    /\ ~result.success
    /\ result.error = "UNKNOWN_ERROR"
    /\ exit_code = 1
    /\ Len(stdout) = 1

(* C8: segment normalisation.  For n caption units of either shape the     *)
(* result has n segments in source order; the k-th (from 0) has id k, the  *)
(* unit's start, end = start + duration and the unit's text unchanged; and *)
(* the result's text is the segment texts joined by one space each.        *)
C8_SegmentNormalization ==
    (Returned /\ result.success) =>
        LET items == service.content.value.items
            segs == result.segments
            n == Len(items)
        IN  /\ Len(segs) = n
            /\ \A k \in 1..n :
                   /\ segs[k].id = k - 1
                   /\ "start" \in DOMAIN items[k] =>
                          segs[k].start = items[k].start
                   /\ {"start", "duration"} \subseteq DOMAIN items[k] =>
                          segs[k].end = items[k].start + items[k].duration
                   /\ "text" \in DOMAIN items[k] =>
                          segs[k].text = items[k].text
            /\ Len(result.text) =
                   IF n = 0 THEN 0
                   ELSE TextOffset(segs, n) + Len(segs[n].text)
            /\ \A k \in 1..n :
                   LET from == TextOffset(segs, k)
                       to == from + Len(segs[k].text)
                   IN  /\ SubSeq(result.text, from + 1, to) = segs[k].text
                       /\ k < n => result.text[to + 1] = " "
            /\ items = <<Unit(0, 2, <<"a">>), Unit(2, 3, <<"b">>)>> =>
                   /\ segs = <<[id |-> 0, start |-> 0, end |-> 2,
                                text |-> <<"a">>],
                               [id |-> 1, start |-> 2, end |-> 5,
                                text |-> <<"b">>]>>
                   /\ result.text = <<"a", " ", "b">>

\* the spec's example, in the plain-mapping shape
C8_Witness ==
    /\ pc = "exited"
    /\ result.success
    /\ transcript_list = PlainList(<<Unit(0, 2, <<"a">>), Unit(2, 3, <<"b">>)>>)
    /\ Len(result.segments) = 2
    /\ result.segments[2].end = 5

(* C9: default language order.  A call with language_codes = None selects  *)
(* the same track and returns the same result as a call with the explicit  *)
(* list <<"no", "en", "da", "sv">>, for every listing and content.         *)
C9_DefaultLanguageOrder ==
    LET explicit == <<"no", "en", "da", "sv">>
    IN  (~args.languages.given /\ pc # "main") =>
            /\ language_codes = explicit
            /\ pc \in {"fetch", "normalize", "returned", "exited"} =>
                   selected_transcript =
                       SelectTranscript(explicit, available_transcripts)
            /\ Returned =>
                   result = FetchTranscript(args.video_id, Some(explicit),
                                            service)

\* None given, English listed before Norwegian: Norwegian is taken
C9_Witness ==
    /\ pc = "exited"
    /\ ~args.languages.given
    /\ Len(available_transcripts) = 2
    /\ available_transcripts[1].language_code = "en"
    /\ available_transcripts[2].language_code = "no"
    /\ selected_transcript = 2
    /\ result.success
    /\ result.language_code = "no"

(* C10: external calls of one invocation.  api.list is called exactly once *)
(* and first; fetch is called at most once, only after api.list returned   *)
(* and a track was selected, and on that track; no call is repeated, so a  *)
(* failing call ends the invocation with a failure result.                 *)
C10_CallOrder ==
    /\ Len(calls) <= 2
    /\ calls = <<>> <=> pc \in {"main", "list"}
    /\ Len(calls) >= 1 =>
           calls[1] = [op |-> "list", video_id |-> args.video_id, track |-> 0]
    /\ Len(calls) = 2 =>
           /\ ListingSucceeded
           /\ Selected
           /\ calls[2] = [op |-> "fetch", video_id |-> args.video_id,
                          track |-> selected_transcript]
           /\ selected_transcript =
                  SelectTranscript(EffectiveLanguageCodes(args.languages),
                                   service.listing.value)
    /\ (Len(calls) = 1 /\ ~ListingSucceeded) => Returned /\ ~result.success
    /\ (Len(calls) = 2 /\ service.content.exc # NoExc) =>
           Returned /\ ~result.success
    /\ Returned => Len(calls) >= 1

\* the fetch on the second listed track fails: two calls, failure result
C10_Witness ==
    /\ pc = "exited"
    /\ Len(calls) = 2
    /\ calls[2].track = 2
    /\ service.content.exc # NoExc
    /\ ~result.success

====
